---------------------------- MODULE Spec2Model ----------------------------
(***************************************************************************)
(* Real-time notification subsystem of src/app.py: the Socket.IO room and  *)
(* session registries (room_users, user_sessions), the SSE update_queue    *)
(* and broadcast_status_update.                                            *)
(*                                                                         *)
(* Every Socket.IO handler runs as a task whose steps are the handler's    *)
(* individual reads and writes of the shared dictionaries.  Spec runs the  *)
(* handlers one at a time (a handler completes before the next starts);    *)
(* SpecConc lets the steps of two handlers interleave.                     *)
(***************************************************************************)
EXTENDS Integers, Sequences, FiniteSets, TLC

(* ------------------------------ bounds -------------------------------- *)
NumSids == 2
NumClients == 2
MaxCalls == 2
MaxTime == 31

(* ----------------------------- constants ------------------------------ *)
SidNames == <<"s1", "s2", "s3", "s4">>
Sids == {SidNames[i] : i \in 1..NumSids}
\* handler slots: slot 1 runs the handlers of incoming events, slot 2 the
\* disconnect handler that the transport dispatches while slot 1 is busy
Tasks == {1, 2}
\* SSE client slots
Clients == 1..NumClients
\* the connections whose handlers are dispatched concurrently in SpecConc
RaceSids == {SidNames[1]}

\* the closed room enumeration of handle_join_room / handle_leave_room
ValidRooms == {"timeline", "floor_display"}
\* room names a client may send: the legal ones and one outside the enumeration
RoomInputs == ValidRooms \cup {"lobby"}

\* the token issued to the user behind each connection
TokenOf(s) ==
    CASE s = "s1" -> "tok_admin"
      [] s = "s2" -> "tok_guest"
      [] s = "s3" -> "tok_floor"
      [] OTHER -> "tok_sched"

\* credentials the client of connection s may present in the handshake:
\* none, a malformed one, an expired one, or its valid token
Tokens(s) == {"", "malformed", "expired", TokenOf(s)}

NoUser == [user_id |-> 0, username |-> "", role |-> ""]

\* jwt.decode: the claims of a well-signed, unexpired token; NoUser stands
\* for the InvalidTokenError / ExpiredSignatureError outcomes
jwt_decode(token) ==
    CASE token = "tok_admin" -> [user_id |-> 1, username |-> "alice", role |-> "admin"]
      [] token = "tok_floor" -> [user_id |-> 2, username |-> "bob", role |-> "floor_view"]
      [] token = "tok_guest" -> [user_id |-> 3, username |-> "carol", role |-> "viewer"]
      [] token = "tok_sched" -> [user_id |-> 4, username |-> "dave", role |-> "scheduler"]
      [] OTHER -> NoUser

get_user_from_token(token) == jwt_decode(token)

(* --------------------------- dictionaries ----------------------------- *)
EmptyDict == [x \in {} |-> NoUser]
DictPut(d, k, v) == [x \in (DOMAIN d) \cup {k} |-> IF x = k THEN v ELSE d[x]]
DictDel(d, k) == [x \in (DOMAIN d) \ {k} |-> d[x]]

VARIABLES
    room_users,     \* {room_name: {sid: user_info}}
    user_sessions,  \* {sid: {user_info, rooms}}
    sio_rooms,      \* transport-level room membership: set of <<room, sid>>
    attached,       \* per sid: "new", "handshake", "open", "rejected", "closed"
    task,           \* per task slot: the handler invocation in progress
    cleaned,        \* sids whose cleanup_user_session found a session and ran to its end
    update_queue,   \* the global Queue() of pending SSE updates
    db,             \* work_orders.status as committed, per work order id
    req,            \* per HTTP request slot: the status request in progress
    calls,          \* number of broadcast_status_update calls made so far
    sse,            \* per SSE client slot: its /api/events stream
    inbox,          \* per observed sid: the work_order_update packets sent to it, in order
    now             \* time.time()

pushvars == <<room_users, user_sessions, sio_rooms, attached, task, cleaned>>
notifyvars == <<update_queue, db, req, calls, inbox>>
ssevars == <<sse, now>>
vars == <<pushvars, notifyvars, ssevars>>

NoSnapshot == [ru |-> EmptyDict, us |-> EmptyDict, sio |-> {}, att |-> <<>>]

IdleTask == [kind |-> "idle", pc |-> "idle", sid |-> "", room |-> "", token |-> "",
             type |-> "",
             user_info |-> NoUser, rooms |-> <<>>, ret |-> NoUser, count |-> 0,
             out |-> <<>>, err |-> "none", rv |-> "None", pre |-> NoSnapshot,
             with |-> {}]

Snapshot == [ru |-> room_users, us |-> user_sessions, sio |-> sio_rooms, att |-> attached]

\* connections currently in a transport-level room
Members(room) == {s \in Sids : <<room, s>> \in sio_rooms}

\* one emitted message: event name, target room ("" for a reply to the
\* requesting sid), the connections it is sent to, and the payload fields
Msg(event, text, room, to, user, count) ==
    [event |-> event, text |-> text, room |-> room, to |-> to, user |-> user,
     count |-> count]

\* emit(event, {...}) inside a handler: a reply to request.sid only
Reply(t, event, text, room, count) ==
    Msg(event, text, room, {task[t].sid}, NoUser, count)

Upd(t, r) == task' = [task EXCEPT ![t] = r]

Idle(t) == task[t].kind = "idle"

(* ------------------- dispatch of an incoming event -------------------- *)
\* the kinds of the handlers of connection s that are between two steps
RunningFor(s) ==
    {task[u].kind : u \in {v \in Tasks : /\ task[v].sid = s
                                          /\ task[v].pc \notin {"idle", "done"}}}

\* A handler invocation begins: the slot records request.sid and the event's
\* data; pre is the record kept of both registries as the handler found
\* them (Snapshot in Spec, none in SpecConc), with the kinds of the handlers
\* of the same connection that are running at that moment.
Begin(t, kind, pc, s, r, tok, pre) ==
    Upd(t, [IdleTask EXCEPT !.kind = kind, !.pc = pc, !.sid = s, !.room = r,
                            !.token = tok, !.pre = pre, !.with = RunningFor(s)])

StartConnect(t, S, pre) ==
    \E s \in S : \E tok \in Tokens(s) :
        /\ Idle(t)
        /\ attached[s] = "new"
        /\ attached' = [attached EXCEPT ![s] = "handshake"]
        /\ Begin(t, "connect", "co", s, "", tok, pre)
        /\ UNCHANGED <<room_users, user_sessions, sio_rooms, cleaned>>

\* a connect event for a sid whose handshake was accepted before: the
\* handler is entered again with the same request.sid
StartReconnect(t, S, pre) ==
    \E s \in S : \E tok \in Tokens(s) :
        /\ Idle(t)
        /\ attached[s] = "open"
        /\ Begin(t, "connect", "co", s, "", tok, pre)
        /\ UNCHANGED <<room_users, user_sessions, sio_rooms, attached, cleaned>>

StartDisconnect(t, S, pre) ==
    \E s \in S :
        /\ Idle(t)
        /\ attached' = [attached EXCEPT ![s] = "closed"]
        /\ Begin(t, "disconnect", "cl_test", s, "", "", pre)
        /\ UNCHANGED <<room_users, user_sessions, sio_rooms, cleaned>>

StartJoinRoom(t, S, pre) ==
    \E s \in S, r \in RoomInputs :
        /\ Idle(t)
        /\ Begin(t, "join_room", "jr_room", s, r, "", pre)
        /\ UNCHANGED <<room_users, user_sessions, sio_rooms, attached, cleaned>>

StartLeaveRoom(t, S, pre) ==
    \E s \in S, r \in RoomInputs :
        /\ Idle(t)
        /\ Begin(t, "leave_room", "lr_room", s, r, "", pre)
        /\ UNCHANGED <<room_users, user_sessions, sio_rooms, attached, cleaned>>

StartGetRoomUsers(t, S, pre) ==
    \E s \in S, r \in RoomInputs :
        /\ Idle(t)
        /\ Begin(t, "get_room_users", "gu", s, r, "", pre)
        /\ UNCHANGED <<room_users, user_sessions, sio_rooms, attached, cleaned>>

\* data['type'] of a timeline_interaction: the two kinds the handler knows
\* and one it does not
InteractionTypes == {"work_order_select", "status_change_start", "zoom"}

StartTimelineInteraction(t, S, pre) ==
    \E s \in S, ty \in InteractionTypes :
        /\ Idle(t)
        /\ Upd(t, [IdleTask EXCEPT !.kind = "timeline_interaction", !.pc = "ti_sess",
                                   !.sid = s, !.type = ty, !.pre = pre,
                                   !.with = RunningFor(s)])
        /\ UNCHANGED <<room_users, user_sessions, sio_rooms, attached, cleaned>>

\* The handler has returned (or raised): the slot is free again.  After the
\* disconnect handler the transport drops the sid from all its rooms; the
\* connect handler's return value accepts or rejects the connection.
Return(t) ==
    /\ task[t].pc = "done"
    /\ Upd(t, IdleTask)
    /\ sio_rooms' = IF task[t].kind = "disconnect"
                    THEN {m \in sio_rooms : m[2] # task[t].sid}
                    ELSE sio_rooms
    /\ attached' = IF task[t].kind = "connect" /\ attached[task[t].sid] = "handshake"
                   THEN [attached EXCEPT ![task[t].sid] =
                            IF task[t].rv = "False" THEN "rejected" ELSE "open"]
                   ELSE attached
    /\ UNCHANGED <<room_users, user_sessions, cleaned>>

At(t, pc) == task[t].pc = pc

\* the handler emits messages ms, then continues at pc
Emit(t, ms, pc) == Upd(t, [task[t] EXCEPT !.out = @ \o ms, !.pc = pc])

\* an exception leaves the handler
Raise(t, e) == Upd(t, [task[t] EXCEPT !.err = e, !.pc = "done"])

Goto(t, pc) == Upd(t, [task[t] EXCEPT !.pc = pc])

(* --------------------------- handle_connect --------------------------- *)
\* faulty variant of handle_connect: the session is stored before the token
\* is looked at
handle_connect_stores_first(t) ==
    /\ At(t, "co")
    /\ LET me == task[t]
           user_info == get_user_from_token(me.token)
       IN  /\ user_sessions' = DictPut(user_sessions, me.sid,
                                       [user_info |-> user_info, rooms |-> {}])
           /\ IF me.token = "" \/ user_info = NoUser
              THEN Upd(t, [me EXCEPT
                        !.out = @ \o <<Reply(t, "error", "Authentication required", "", -1)>>,
                        !.rv = "False", !.pc = "done"])
              ELSE Upd(t, [me EXCEPT
                        !.out = @ \o <<Msg("connected", "Connected to Socket.IO server",
                                           "", {me.sid}, user_info, -1)>>,
                        !.user_info = user_info, !.pc = "done"])
    /\ UNCHANGED <<room_users, sio_rooms, attached, cleaned>>

handle_connect(t) ==
    /\ At(t, "co")
    /\ LET me == task[t]
           user_info == get_user_from_token(me.token)
       IN  IF me.token = ""
           THEN /\ Upd(t, [me EXCEPT
                        !.out = @ \o <<Reply(t, "error", "Authentication required", "", -1)>>,
                        !.rv = "False", !.pc = "done"])
                /\ UNCHANGED user_sessions
           ELSE IF user_info = NoUser
           THEN /\ Upd(t, [me EXCEPT
                        !.out = @ \o <<Reply(t, "error", "Invalid authentication token", "", -1)>>,
                        !.rv = "False", !.pc = "done"])
                /\ UNCHANGED user_sessions
           ELSE /\ user_sessions' = DictPut(user_sessions, me.sid,
                                            [user_info |-> user_info, rooms |-> {}])
                /\ Upd(t, [me EXCEPT
                        !.out = @ \o <<Msg("connected", "Connected to Socket.IO server",
                                           "", {me.sid}, user_info, -1)>>,
                        !.user_info = user_info, !.pc = "done"])
    /\ UNCHANGED <<room_users, sio_rooms, attached, cleaned>>

(* -------------------------- add_user_to_room -------------------------- *)
\* if room not in room_users:
au_test(t) ==
    /\ At(t, "au_test")
    /\ Goto(t, IF task[t].room \notin DOMAIN room_users THEN "au_mk" ELSE "au_put")
    /\ UNCHANGED <<room_users, user_sessions, sio_rooms, attached, cleaned>>

\* room_users[room] = {}
au_mk(t) ==
    /\ At(t, "au_mk")
    /\ room_users' = DictPut(room_users, task[t].room, EmptyDict)
    /\ Goto(t, "au_put")
    /\ UNCHANGED <<user_sessions, sio_rooms, attached, cleaned>>

\* room_users[room][sid] = user_info
au_put(t) ==
    /\ At(t, "au_put")
    /\ LET me == task[t] IN
       room_users' = [room_users EXCEPT ![me.room] = DictPut(@, me.sid, me.user_info)]
    /\ Goto(t, "au_sess")
    /\ UNCHANGED <<user_sessions, sio_rooms, attached, cleaned>>

\* if sid not in user_sessions:
au_sess(t) ==
    /\ At(t, "au_sess")
    /\ Goto(t, IF task[t].sid \notin DOMAIN user_sessions THEN "au_mksess" ELSE "au_add")
    /\ UNCHANGED <<room_users, user_sessions, sio_rooms, attached, cleaned>>

\* user_sessions[sid] = {'user_info': user_info, 'rooms': set()}
au_mksess(t) ==
    /\ At(t, "au_mksess")
    /\ user_sessions' = DictPut(user_sessions, task[t].sid,
                                [user_info |-> task[t].user_info, rooms |-> {}])
    /\ Goto(t, "au_add")
    /\ UNCHANGED <<room_users, sio_rooms, attached, cleaned>>

\* faulty variant of au_add: the session's room set is replaced, not added to
au_add_replaces(t) ==
    /\ At(t, "au_add")
    /\ LET me == task[t] IN
       IF me.sid \in DOMAIN user_sessions
       THEN /\ user_sessions' = [user_sessions EXCEPT ![me.sid].rooms = {me.room}]
            /\ Goto(t, "jr_list")
       ELSE /\ Raise(t, "KeyError")
            /\ UNCHANGED user_sessions
    /\ UNCHANGED <<room_users, sio_rooms, attached, cleaned>>

\* user_sessions[sid]['rooms'].add(room)
au_add(t) ==
    /\ At(t, "au_add")
    /\ LET me == task[t] IN
       IF me.sid \in DOMAIN user_sessions
       THEN /\ user_sessions' = [user_sessions EXCEPT ![me.sid].rooms = @ \cup {me.room}]
            /\ Goto(t, "jr_list")
       ELSE /\ Raise(t, "KeyError")
            /\ UNCHANGED user_sessions
    /\ UNCHANGED <<room_users, sio_rooms, attached, cleaned>>

\* without au_mksess, which no serial execution reaches: handle_join_room
\* has already found the session
add_user_to_room(t) ==
    \/ au_test(t) \/ au_mk(t) \/ au_put(t) \/ au_sess(t) \/ au_add(t)

(* ------------------------ remove_user_from_room ----------------------- *)
\* where remove_user_from_room returns to
ru_return(t) == IF task[t].kind = "leave_room" THEN "lr_after" ELSE "cl_emit"

\* faulty variant of ru_test: membership is not tested before the delete
ru_test_unguarded(t) ==
    /\ At(t, "ru_test")
    /\ IF task[t].room \in DOMAIN room_users
       THEN Goto(t, "ru_del")
       ELSE Upd(t, [task[t] EXCEPT !.ret = NoUser, !.pc = ru_return(t)])
    /\ UNCHANGED <<room_users, user_sessions, sio_rooms, attached, cleaned>>

\* if room in room_users and sid in room_users[room]:   (else: return None)
ru_test(t) ==
    /\ At(t, "ru_test")
    /\ LET me == task[t] IN
       IF me.room \in DOMAIN room_users /\ me.sid \in DOMAIN room_users[me.room]
       THEN Goto(t, "ru_del")
       ELSE Upd(t, [me EXCEPT !.ret = NoUser, !.pc = ru_return(t)])
    /\ UNCHANGED <<room_users, user_sessions, sio_rooms, attached, cleaned>>

\* user_info = room_users[room][sid]; del room_users[room][sid]
ru_del(t) ==
    /\ At(t, "ru_del")
    /\ LET me == task[t] IN
       IF me.sid \in DOMAIN room_users[me.room]
       THEN /\ room_users' = [room_users EXCEPT ![me.room] = DictDel(@, me.sid)]
            /\ Upd(t, [me EXCEPT !.ret = room_users[me.room][me.sid], !.pc = "ru_sess"])
       ELSE /\ Raise(t, "KeyError")
            /\ UNCHANGED room_users
    /\ UNCHANGED <<user_sessions, sio_rooms, attached, cleaned>>

\* if sid in user_sessions:
ru_sess(t) ==
    /\ At(t, "ru_sess")
    /\ Goto(t, IF task[t].sid \in DOMAIN user_sessions THEN "ru_discard" ELSE ru_return(t))
    /\ UNCHANGED <<room_users, user_sessions, sio_rooms, attached, cleaned>>

\* faulty variant of ru_discard: the session's room set is left untouched
ru_discard_nodiscard(t) ==
    /\ At(t, "ru_discard")
    /\ Goto(t, ru_return(t))
    /\ UNCHANGED <<room_users, user_sessions, sio_rooms, attached, cleaned>>

\* user_sessions[sid]['rooms'].discard(room); return user_info
ru_discard(t) ==
    /\ At(t, "ru_discard")
    /\ LET me == task[t] IN
       IF me.sid \in DOMAIN user_sessions
       THEN /\ user_sessions' = [user_sessions EXCEPT ![me.sid].rooms = @ \ {me.room}]
            /\ Goto(t, ru_return(t))
       ELSE /\ Raise(t, "KeyError")
            /\ UNCHANGED user_sessions
    /\ UNCHANGED <<room_users, sio_rooms, attached, cleaned>>

remove_user_from_room(t) == ru_test(t) \/ ru_del(t) \/ ru_sess(t) \/ ru_discard(t)

\* get_room_users(room): the entries of room_users[room], one per sid (the
\* code returns their values as a list; its length is the user_count)
get_room_users(room) ==
    IF room \notin DOMAIN room_users THEN {} ELSE DOMAIN room_users[room]

(* -------------------------- handle_join_room -------------------------- *)
\* faulty variant of jr_room: the room name is not checked
jr_room_unchecked(t) ==
    /\ At(t, "jr_room")
    /\ Goto(t, "jr_sess")
    /\ UNCHANGED <<room_users, user_sessions, sio_rooms, attached, cleaned>>

\* if room not in ['timeline', 'floor_display']: emit error; return
jr_room(t) ==
    /\ At(t, "jr_room")
    /\ IF task[t].room \notin ValidRooms
       THEN Emit(t, <<Reply(t, "error", "Invalid room", task[t].room, -1)>>, "done")
       ELSE Goto(t, "jr_sess")
    /\ UNCHANGED <<room_users, user_sessions, sio_rooms, attached, cleaned>>

\* faulty variant of jr_sess: the session is not looked up before use
jr_sess_unchecked(t) ==
    /\ At(t, "jr_sess")
    /\ Goto(t, "jr_info")
    /\ UNCHANGED <<room_users, user_sessions, sio_rooms, attached, cleaned>>

\* if request.sid not in user_sessions: emit error; return
jr_sess(t) ==
    /\ At(t, "jr_sess")
    /\ IF task[t].sid \notin DOMAIN user_sessions
       THEN Emit(t, <<Reply(t, "error", "User session not found", "", -1)>>, "done")
       ELSE Goto(t, "jr_info")
    /\ UNCHANGED <<room_users, user_sessions, sio_rooms, attached, cleaned>>

\* user_info = user_sessions[request.sid]['user_info']
jr_info(t) ==
    /\ At(t, "jr_info")
    /\ LET me == task[t] IN
       IF me.sid \in DOMAIN user_sessions
       THEN Upd(t, [me EXCEPT !.user_info = user_sessions[me.sid].user_info,
                              !.pc = "jr_sio"])
       ELSE Raise(t, "KeyError")
    /\ UNCHANGED <<room_users, user_sessions, sio_rooms, attached, cleaned>>

\* faulty variant of jr_sio: the transport-level room is not joined
jr_sio_skipped(t) ==
    /\ At(t, "jr_sio")
    /\ Goto(t, "au_test")
    /\ UNCHANGED <<room_users, user_sessions, sio_rooms, attached, cleaned>>

\* join_room(room): the transport-level room
jr_sio(t) ==
    /\ At(t, "jr_sio")
    /\ sio_rooms' = sio_rooms \cup {<<task[t].room, task[t].sid>>}
    /\ Goto(t, "au_test")
    /\ UNCHANGED <<room_users, user_sessions, attached, cleaned>>

\* room_users_list = get_room_users(room)
jr_list(t) ==
    /\ At(t, "jr_list")
    /\ Upd(t, [task[t] EXCEPT !.count = Cardinality(get_room_users(task[t].room)),
                              !.pc = "jr_emit"])
    /\ UNCHANGED <<room_users, user_sessions, sio_rooms, attached, cleaned>>

\* emit('room_joined', ...); emit('user_joined_room', ..., room=room, include_self=False)
jr_emit(t) ==
    /\ At(t, "jr_emit")
    /\ LET me == task[t] IN
       Emit(t, <<Reply(t, "room_joined", "Joined room", me.room, me.count),
                 Msg("user_joined_room", "", me.room, Members(me.room) \ {me.sid},
                     me.user_info, me.count)>>, "done")
    /\ UNCHANGED <<room_users, user_sessions, sio_rooms, attached, cleaned>>

handle_join_room(t) ==
    \/ jr_room(t) \/ jr_sess(t) \/ jr_info(t) \/ jr_sio(t)
    \/ add_user_to_room(t)
    \/ jr_list(t) \/ jr_emit(t)

(* -------------------------- handle_leave_room ------------------------- *)
\* if room not in ['timeline', 'floor_display']: emit error; return
lr_room(t) ==
    /\ At(t, "lr_room")
    /\ IF task[t].room \notin ValidRooms
       THEN Emit(t, <<Reply(t, "error", "Invalid room", task[t].room, -1)>>, "done")
       ELSE Goto(t, "ru_test")
    /\ UNCHANGED <<room_users, user_sessions, sio_rooms, attached, cleaned>>

\* faulty variant of lr_after: the transport-level room is not left
lr_after_stays(t) ==
    /\ At(t, "lr_after")
    /\ IF task[t].ret # NoUser
       THEN Goto(t, "lr_list")
       ELSE Emit(t, <<Reply(t, "error", "User not in room", task[t].room, -1)>>, "done")
    /\ UNCHANGED <<room_users, user_sessions, sio_rooms, attached, cleaned>>

\* if user_info: leave_room(room) ... else: emit('error', 'User not in room')
lr_after(t) ==
    /\ At(t, "lr_after")
    /\ IF task[t].ret # NoUser
       THEN /\ sio_rooms' = sio_rooms \ {<<task[t].room, task[t].sid>>}
            /\ Goto(t, "lr_list")
       ELSE /\ Emit(t, <<Reply(t, "error", "User not in room", task[t].room, -1)>>, "done")
            /\ UNCHANGED sio_rooms
    /\ UNCHANGED <<room_users, user_sessions, attached, cleaned>>

\* room_users_list = get_room_users(room)
lr_list(t) ==
    /\ At(t, "lr_list")
    /\ Upd(t, [task[t] EXCEPT !.count = Cardinality(get_room_users(task[t].room)),
                              !.pc = "lr_emit"])
    /\ UNCHANGED <<room_users, user_sessions, sio_rooms, attached, cleaned>>

\* emit('room_left', ...); emit('user_left_room', ..., room=room)
lr_emit(t) ==
    /\ At(t, "lr_emit")
    /\ LET me == task[t] IN
       Emit(t, <<Reply(t, "room_left", "Left room", me.room, -1),
                 Msg("user_left_room", "", me.room, Members(me.room), me.ret, me.count)>>,
            "done")
    /\ UNCHANGED <<room_users, user_sessions, sio_rooms, attached, cleaned>>

handle_leave_room(t) ==
    \/ lr_room(t) \/ lr_after(t) \/ lr_list(t) \/ lr_emit(t)

(* ------------------------ handle_get_room_users ----------------------- *)
\* if room in ['timeline', 'floor_display']: emit('room_users_update', ...)
\* else: emit('error', {'message': f'Invalid room: {room}'})
handle_get_room_users(t) ==
    /\ At(t, "gu")
    /\ LET me == task[t] IN
       IF me.room \in ValidRooms
       THEN Upd(t, [me EXCEPT
               !.count = Cardinality(get_room_users(me.room)),
               !.out = @ \o <<Reply(t, "room_users_update", "", me.room,
                                     Cardinality(get_room_users(me.room)))>>,
               !.pc = "done"])
       ELSE Emit(t, <<Reply(t, "error", "Invalid room", me.room, -1)>>, "done")
    /\ UNCHANGED <<room_users, user_sessions, sio_rooms, attached, cleaned>>

(* --------------------- handle_timeline_interaction -------------------- *)
\* faulty variant of ti_sess: the session is not looked up before use
ti_sess_unchecked(t) ==
    /\ At(t, "ti_sess")
    /\ Goto(t, "ti_info")
    /\ UNCHANGED <<room_users, user_sessions, sio_rooms, attached, cleaned>>

\* if request.sid not in user_sessions: emit error; return
ti_sess(t) ==
    /\ At(t, "ti_sess")
    /\ IF task[t].sid \notin DOMAIN user_sessions
       THEN Emit(t, <<Reply(t, "error", "User session not found", "", -1)>>, "done")
       ELSE Goto(t, "ti_info")
    /\ UNCHANGED <<room_users, user_sessions, sio_rooms, attached, cleaned>>

\* user_info = user_sessions[request.sid]['user_info']
ti_info(t) ==
    /\ At(t, "ti_info")
    /\ LET me == task[t] IN
       IF me.sid \in DOMAIN user_sessions
       THEN Upd(t, [me EXCEPT !.user_info = user_sessions[me.sid].user_info,
                              !.pc = "ti_emit"])
       ELSE Raise(t, "KeyError")
    /\ UNCHANGED <<room_users, user_sessions, sio_rooms, attached, cleaned>>

\* emit('timeline_work_order_selected' | 'timeline_status_change_start', {...},
\*      room='timeline', include_self=False); any other type: nothing
ti_emit(t) ==
    /\ At(t, "ti_emit")
    /\ LET me == task[t]
           to == Members("timeline") \ {me.sid}
       IN  IF me.type = "work_order_select"
           THEN Emit(t, <<Msg("timeline_work_order_selected", "", "timeline", to,
                              me.user_info, -1)>>, "done")
           ELSE IF me.type = "status_change_start"
           THEN Emit(t, <<Msg("timeline_status_change_start", "", "timeline", to,
                              me.user_info, -1)>>, "done")
           ELSE Goto(t, "done")
    /\ UNCHANGED <<room_users, user_sessions, sio_rooms, attached, cleaned>>

handle_timeline_interaction(t) == ti_sess(t) \/ ti_info(t) \/ ti_emit(t)

(* ------------------- handle_disconnect / cleanup ---------------------- *)
\* the orders in which list(a set of rooms) may enumerate it
RoomOrders(rs) ==
    {q \in UNION {[1..n -> rs] : n \in {Cardinality(rs)}} :
        \A i, j \in DOMAIN q : i # j => q[i] # q[j]}

\* faulty variant of cl_test: the session is not looked up before use
cl_test_unguarded(t) ==
    /\ At(t, "cl_test")
    /\ Goto(t, "cl_info")
    /\ UNCHANGED <<room_users, user_sessions, sio_rooms, attached, cleaned>>

\* if sid in user_sessions:
cl_test(t) ==
    /\ At(t, "cl_test")
    /\ Goto(t, IF task[t].sid \in DOMAIN user_sessions THEN "cl_info" ELSE "done")
    /\ UNCHANGED <<room_users, user_sessions, sio_rooms, attached, cleaned>>

\* user_info = user_sessions[sid]['user_info']
cl_info(t) ==
    /\ At(t, "cl_info")
    /\ LET me == task[t] IN
       IF me.sid \in DOMAIN user_sessions
       THEN Upd(t, [me EXCEPT !.user_info = user_sessions[me.sid].user_info,
                              !.pc = "cl_rooms"])
       ELSE Raise(t, "KeyError")
    /\ UNCHANGED <<room_users, user_sessions, sio_rooms, attached, cleaned>>

\* rooms = list(user_sessions[sid]['rooms'])
cl_rooms(t) ==
    /\ At(t, "cl_rooms")
    /\ LET me == task[t] IN
       IF me.sid \in DOMAIN user_sessions
       THEN \E q \in RoomOrders(user_sessions[me.sid].rooms) :
                Upd(t, [me EXCEPT !.rooms = q, !.pc = "cl_loop"])
       ELSE Raise(t, "KeyError")
    /\ UNCHANGED <<room_users, user_sessions, sio_rooms, attached, cleaned>>

\* faulty variant of cl_loop: the loop stops one room early
cl_loop_short(t) ==
    /\ At(t, "cl_loop")
    /\ LET me == task[t] IN
       IF Len(me.rooms) > 1
       THEN Upd(t, [me EXCEPT !.room = Head(me.rooms), !.rooms = Tail(me.rooms),
                              !.pc = "ru_test"])
       ELSE Goto(t, "cl_del")
    /\ UNCHANGED <<room_users, user_sessions, sio_rooms, attached, cleaned>>

\* for room in rooms: remove_user_from_room(sid, room)
cl_loop(t) ==
    /\ At(t, "cl_loop")
    /\ LET me == task[t] IN
       IF me.rooms # <<>>
       THEN Upd(t, [me EXCEPT !.room = Head(me.rooms), !.rooms = Tail(me.rooms),
                              !.pc = "ru_test"])
       ELSE Goto(t, "cl_del")
    /\ UNCHANGED <<room_users, user_sessions, sio_rooms, attached, cleaned>>

\* socketio.emit('user_left_room', {...}, room=room)
cl_emit(t) ==
    /\ At(t, "cl_emit")
    /\ LET me == task[t] IN
       Emit(t, <<Msg("user_left_room", "", me.room, Members(me.room), me.user_info, -1)>>,
            "cl_loop")
    /\ UNCHANGED <<room_users, user_sessions, sio_rooms, attached, cleaned>>

\* socketio.emit raises: the exception leaves cleanup_user_session
cl_emit_raises(t) ==
    /\ At(t, "cl_emit")
    /\ Raise(t, "EmitError")
    /\ UNCHANGED <<room_users, user_sessions, sio_rooms, attached, cleaned>>

\* del user_sessions[sid]
cl_del(t) ==
    /\ At(t, "cl_del")
    /\ IF task[t].sid \in DOMAIN user_sessions
       THEN /\ user_sessions' = DictDel(user_sessions, task[t].sid)
            /\ cleaned' = cleaned \cup {task[t].sid}
            /\ Goto(t, "done")
       ELSE /\ Raise(t, "KeyError")
            /\ UNCHANGED <<user_sessions, cleaned>>
    /\ UNCHANGED <<room_users, sio_rooms, attached>>

cleanup_user_session(t) ==
    \/ cl_test(t) \/ cl_info(t) \/ cl_rooms(t) \/ cl_loop(t)
    \/ cl_emit(t) \/ cl_emit_raises(t) \/ cl_del(t)

(* ==================== status updates and broadcast =================== *)
\* HTTP request slots
Requests == {1, 2}

\* valid_statuses of the status endpoints
ValidStatuses == {"1st Side Ready", "Ready", "Ready*", "In Progress", "Setup",
                  "Running", "Completed", "On Hold", "Issues",
                  "Missing TSM-125-01-L-DV", "Quality Check", "Cancelled"}

\* the 'status' a request body may carry: absent, legal ones, an illegal one
StatusInputs == {"", "Ready", " In Progress ", "Shipped"}

\* data['status'].strip()
strip(str) == IF str = " In Progress " THEN "In Progress" ELSE str

\* the rows of work_orders; a request may also name an id that has no row
WorkOrders == {"wo1"}
WorkOrderInputs == WorkOrders \cup {"wo9"}

\* the bearer tokens a status request may carry
BearerTokens == {"", "expired", "tok_admin", "tok_floor"}

\* decode_jwt_token: the payload, NoUser standing for None
decode_jwt_token(token) == jwt_decode(token)

\* required_roles of the two status endpoints, and of /api/test/broadcast
StatusRoles == {"admin", "scheduler", "supervisor"}
TestRoles == {"admin"}

NoData == [type |-> "", work_order |-> [id |-> "", work_order_number |-> "", status |-> ""],
           status_change |-> [old_status |-> "", new_status |-> "", updated_by |-> ""]]

IdleReq == [route |-> "", pc |-> "idle", token |-> "", wo |-> "", status |-> "",
            user |-> NoUser, work_order_data |-> [id |-> "", work_order_number |-> ""],
            old_status |-> "", new_status |-> "", updated_by |-> "",
            tx |-> "none", call |-> 0, update_data |-> NoData, tried |-> {},
            failed |-> {}, exc |-> FALSE, out |-> <<>>, resp |-> 0]

UpdReq(q, r) == req' = [req EXCEPT ![q] = r]

ReqAt(q, pc) == req[q].pc = pc

\* the handler returns the HTTP response code
Respond(q, code) == UpdReq(q, [req[q] EXCEPT !.resp = code, !.pc = "done"])

\* requests that may still call broadcast_status_update
InFlight == {q \in Requests : req[q].pc \notin {"idle", "done"}}

\* PUT /api/mobile/work-orders/<id>/status or /api/timeline/work-orders/<id>/status
StartStatusUpdate(q) ==
    \E route \in {"mobile", "timeline"}, tok \in BearerTokens,
       wo \in WorkOrderInputs, st \in StatusInputs :
        /\ req[q].pc = "idle"
        /\ calls + Cardinality(InFlight) < MaxCalls
        /\ UpdReq(q, [IdleReq EXCEPT !.route = route, !.pc = "h_auth", !.token = tok,
                                     !.wo = wo, !.status = st])
        /\ UNCHANGED <<update_queue, db, calls, sse, inbox>>

\* require_auth(['admin', 'scheduler', 'supervisor']) and its inline copy
h_auth(q) ==
    /\ ReqAt(q, "h_auth")
    /\ LET me == req[q]
           payload == decode_jwt_token(me.token)
           roles == IF me.route = "test" THEN TestRoles ELSE StatusRoles
       IN  IF me.token = "" \/ payload = NoUser THEN Respond(q, 401)
           ELSE IF payload.role \notin roles THEN Respond(q, 403)
           ELSE UpdReq(q, [me EXCEPT !.user = payload,
                                     !.pc = IF me.route = "test" THEN "t_data"
                                            ELSE "h_validate"])
    /\ UNCHANGED <<update_queue, db, calls, sse, inbox>>

\* if not data.get('status'): 400; if new_status not in valid_statuses: 400
h_validate(q) ==
    /\ ReqAt(q, "h_validate")
    /\ LET me == req[q] IN
       IF me.status = "" \/ strip(me.status) \notin ValidStatuses THEN Respond(q, 400)
       ELSE UpdReq(q, [me EXCEPT !.new_status = strip(me.status),
                                 !.updated_by = me.user.username,
                                 !.pc = "h_connect"])
    /\ UNCHANGED <<update_queue, db, calls, sse, inbox>>

\* connection = get_database_connection()
h_connect(q) ==
    /\ ReqAt(q, "h_connect")
    /\ UpdReq(q, [req[q] EXCEPT !.pc = "h_select"])
    /\ UNCHANGED <<update_queue, db, calls, sse, inbox>>

\* if not connection: 500
h_connect_fails(q) ==
    /\ ReqAt(q, "h_connect")
    /\ Respond(q, 500)
    /\ UNCHANGED <<update_queue, db, calls, sse, inbox>>

\* SELECT ... WHERE wo.id = %s; 404 when there is no row; the timeline
\* endpoint answers 200 'Status unchanged' when old_status == new_status
h_select(q) ==
    /\ ReqAt(q, "h_select")
    /\ LET me == req[q] IN
       IF me.wo \notin DOMAIN db THEN Respond(q, 404)
       ELSE IF me.route = "timeline" /\ db[me.wo] = me.new_status THEN Respond(q, 200)
       ELSE UpdReq(q, [me EXCEPT !.old_status = db[me.wo], !.tx = "open",
                                 !.pc = "h_commit"])
    /\ UNCHANGED <<update_queue, db, calls, sse, inbox>>

\* faulty variant of h_commit: the broadcast is made before the commit
h_commit_after_broadcast(q) ==
    /\ ReqAt(q, "h_commit")
    /\ UpdReq(q, [req[q] EXCEPT
                    !.work_order_data = [id |-> req[q].wo, work_order_number |-> req[q].wo],
                    !.pc = "bsu_build"])
    /\ UNCHANGED <<update_queue, db, calls, sse, inbox>>

\* UPDATE work_orders ...; INSERT INTO history ...; connection.commit()
h_commit(q) ==
    /\ ReqAt(q, "h_commit")
    /\ db' = [db EXCEPT ![req[q].wo] = req[q].new_status]
    /\ UpdReq(q, [req[q] EXCEPT
                    !.tx = "committed",
                    !.work_order_data = [id |-> req[q].wo, work_order_number |-> req[q].wo],
                    !.pc = "bsu_build"])
    /\ UNCHANGED <<update_queue, calls, sse, inbox>>

\* a statement of the transaction raises: except Exception as db_error
h_db_raises(q) ==
    /\ req[q].pc \in {"h_select", "h_commit"}
    /\ UpdReq(q, [req[q] EXCEPT !.pc = "h_dberror"])
    /\ UNCHANGED <<update_queue, db, calls, sse, inbox>>

\* connection.rollback(); connection.close(); 500
h_dberror(q) ==
    /\ ReqAt(q, "h_dberror")
    /\ UpdReq(q, [req[q] EXCEPT !.tx = "rolledback", !.resp = 500, !.pc = "done"])
    /\ UNCHANGED <<update_queue, db, calls, sse, inbox>>

\* after broadcast_status_update(...): the success response, unless an
\* exception reached the handler's except clause
h_after(q) ==
    /\ ReqAt(q, "h_after")
    /\ IF req[q].exc
       THEN IF req[q].route = "test" THEN Respond(q, 500)
            ELSE UpdReq(q, [req[q] EXCEPT !.pc = "h_dberror"])
       ELSE Respond(q, 200)
    /\ UNCHANGED <<update_queue, db, calls, sse, inbox>>

\* the response has been sent: the slot is free
ReqReturn(q) ==
    /\ ReqAt(q, "done")
    /\ UpdReq(q, IdleReq)
    /\ UNCHANGED <<update_queue, db, calls, sse, inbox>>

mobile_update_work_order_status(q) ==
    \/ h_auth(q) \/ h_validate(q) \/ h_connect(q) \/ h_connect_fails(q)
    \/ h_select(q) \/ h_commit(q) \/ h_db_raises(q) \/ h_dberror(q) \/ h_after(q)

(* ------------------------------ /api/events --------------------------- *)
\* roles that may open the event stream
StreamRoles == {"admin", "scheduler", "supervisor", "floor_view"}

\* the ?token= values a stream request may carry
StreamTokens(k) ==
    {"", "malformed", "expired", "tok_guest", IF k = 1 THEN "tok_admin" ELSE "tok_floor"}

\* seconds between heartbeats
HeartbeatInterval == 30

NoUpdate == [call |-> 0, data |-> NoData]

IdleStream == [pc |-> "idle", token |-> "", user |-> NoUser, open |-> FALSE,
               update |-> NoUpdate, last_heartbeat |-> 0,
               received |-> {}, owed |-> {}, out |-> <<>>, resp |-> 0]

\* the positions of event_generator
GeneratorPcs == {"se_hello", "se_init", "se_loop", "se_hb_set", "se_check",
                 "se_get", "se_yield", "se_sleep"}

\* the client is attached and its generator is running
Streaming(k) == sse[k].open /\ sse[k].pc \in GeneratorPcs

\* the client has been sent the 'connected' acknowledgment and is still attached
Connected(k) == Streaming(k) /\ sse[k].out # <<>>

(* ----------------------- broadcast_status_update ---------------------- *)
\* socketio.emit(..., room=room): the packet is put on the send queue of
\* every connection that is in the room at that moment
Send(room, call) ==
    inbox' = [s \in DOMAIN inbox |->
                IF s \in Members(room) THEN Append(inbox[s], [room |-> room, call |-> call])
                ELSE inbox[s]]

\* what one delivery step of broadcast_status_update handed over
Delivery(via, room, to, data) == [via |-> via, room |-> room, to |-> to, data |-> data]

\* update_data = {...}: the fields the clients read; the two isoformat()
\* timestamps are left out
bsu_build(q) ==
    /\ ReqAt(q, "bsu_build")
    /\ calls' = calls + 1
    /\ LET me == req[q] IN
       UpdReq(q, [me EXCEPT
          !.call = calls + 1,
          !.update_data =
              [type |-> "work_order_update",
               work_order |-> [id |-> me.work_order_data.id,
                               work_order_number |-> me.work_order_data.work_order_number,
                               status |-> me.new_status],
               status_change |-> [old_status |-> me.old_status,
                                  new_status |-> me.new_status,
                                  updated_by |-> me.updated_by]],
          !.pc = "bsu_put"])
    /\ UNCHANGED <<update_queue, db, sse, inbox>>

\* a put that appends the event twice
bsu_put_twice(q) ==
    /\ ReqAt(q, "bsu_put")
    /\ update_queue' = update_queue \o << [call |-> req[q].call, data |-> req[q].update_data],
                                          [call |-> req[q].call, data |-> req[q].update_data] >>
    /\ UpdReq(q, [req[q] EXCEPT
          !.tried = @ \cup {"update_queue"},
          !.out = Append(@, Delivery("update_queue", "", {}, req[q].update_data)),
          !.pc = "bsu_emit_timeline"])
    /\ UNCHANGED <<db, calls, sse, inbox>>

\* update_queue.put(update_data)
bsu_put(q) ==
    /\ ReqAt(q, "bsu_put")
    /\ update_queue' = Append(update_queue, [call |-> req[q].call, data |-> req[q].update_data])
    /\ UpdReq(q, [req[q] EXCEPT
          !.tried = @ \cup {"update_queue"},
          !.out = Append(@, Delivery("update_queue", "", {}, req[q].update_data)),
          !.pc = "bsu_emit_timeline"])
    /\ sse' = [k \in DOMAIN sse |->
                 IF Connected(k) THEN [sse[k] EXCEPT !.owed = @ \cup {req[q].call}]
                 ELSE sse[k]]
    /\ UNCHANGED <<db, calls, inbox>>

\* update_queue.put raises
bsu_put_raises(q) ==
    /\ ReqAt(q, "bsu_put")
    /\ UpdReq(q, [req[q] EXCEPT !.tried = @ \cup {"update_queue"},
                                !.failed = @ \cup {"update_queue"},
                                !.exc = TRUE, !.pc = "bsu_except"])
    /\ UNCHANGED <<update_queue, db, calls, sse, inbox>>

\* faulty variant of bsu_emit_timeline: the packet jumps the send queue
bsu_emit_timeline_jumps(q) ==
    /\ ReqAt(q, "bsu_emit_timeline")
    /\ UpdReq(q, [req[q] EXCEPT
          !.tried = @ \cup {"timeline"},
          !.out = Append(@, Delivery("socketio", "timeline", Members("timeline"),
                                     req[q].update_data)),
          !.pc = "bsu_emit_floor_display"])
    /\ inbox' = [s \in DOMAIN inbox |->
                   IF s \in Members("timeline")
                   THEN <<[room |-> "timeline", call |-> req[q].call]>> \o inbox[s]
                   ELSE inbox[s]]
    /\ UNCHANGED <<update_queue, db, calls, sse>>

\* socketio.emit('work_order_update', update_data, room='timeline')
bsu_emit_timeline(q) ==
    /\ ReqAt(q, "bsu_emit_timeline")
    /\ UpdReq(q, [req[q] EXCEPT
          !.tried = @ \cup {"timeline"},
          !.out = Append(@, Delivery("socketio", "timeline", Members("timeline"),
                                     req[q].update_data)),
          !.pc = "bsu_emit_floor_display"])
    /\ Send("timeline", req[q].call)
    /\ UNCHANGED <<update_queue, db, calls, sse>>

\* socketio.emit(..., room='timeline') raises
bsu_emit_timeline_raises(q) ==
    /\ ReqAt(q, "bsu_emit_timeline")
    /\ UpdReq(q, [req[q] EXCEPT !.tried = @ \cup {"timeline"},
                                !.failed = @ \cup {"timeline"},
                                !.exc = TRUE, !.pc = "bsu_except"])
    /\ UNCHANGED <<update_queue, db, calls, sse, inbox>>

\* an emit to 'floor_display' whose payload still carries the old status
bsu_emit_floor_display_stale(q) ==
    /\ ReqAt(q, "bsu_emit_floor_display")
    /\ UpdReq(q, [req[q] EXCEPT
          !.tried = @ \cup {"floor_display"},
          !.out = Append(@, Delivery("socketio", "floor_display", Members("floor_display"),
                                     [req[q].update_data EXCEPT
                                          !.work_order.status = req[q].old_status])),
          !.pc = "h_after"])
    /\ Send("floor_display", req[q].call)
    /\ UNCHANGED <<update_queue, db, calls, sse>>

\* socketio.emit('work_order_update', update_data, room='floor_display'); logger.info
bsu_emit_floor_display(q) ==
    /\ ReqAt(q, "bsu_emit_floor_display")
    /\ UpdReq(q, [req[q] EXCEPT
          !.tried = @ \cup {"floor_display"},
          !.out = Append(@, Delivery("socketio", "floor_display", Members("floor_display"),
                                     req[q].update_data)),
          !.pc = "h_after"])
    /\ Send("floor_display", req[q].call)
    /\ UNCHANGED <<update_queue, db, calls, sse>>

\* socketio.emit(..., room='floor_display') raises
bsu_emit_floor_display_raises(q) ==
    /\ ReqAt(q, "bsu_emit_floor_display")
    /\ UpdReq(q, [req[q] EXCEPT !.tried = @ \cup {"floor_display"},
                                !.failed = @ \cup {"floor_display"},
                                !.exc = TRUE, !.pc = "bsu_except"])
    /\ UNCHANGED <<update_queue, db, calls, sse, inbox>>

\* an except clause that logs and raises again
bsu_except_reraises(q) ==
    /\ ReqAt(q, "bsu_except")
    /\ UpdReq(q, [req[q] EXCEPT !.pc = "h_after"])
    /\ UNCHANGED <<update_queue, db, calls, sse, inbox>>

\* except Exception as e: logger.error(...)  -- the function returns None
bsu_except(q) ==
    /\ ReqAt(q, "bsu_except")
    /\ UpdReq(q, [req[q] EXCEPT !.exc = FALSE, !.pc = "h_after"])
    /\ UNCHANGED <<update_queue, db, calls, sse, inbox>>

broadcast_status_update(q) ==
    \/ bsu_build(q)
    \/ bsu_put(q) \/ bsu_put_raises(q)
    \/ bsu_emit_timeline(q) \/ bsu_emit_timeline_raises(q)
    \/ bsu_emit_floor_display(q) \/ bsu_emit_floor_display_raises(q)
    \/ bsu_except(q)

(* --------------------------- test_broadcast --------------------------- *)
\* POST /api/test/broadcast
StartTestBroadcast(q) ==
    \E tok \in BearerTokens :
        /\ req[q].pc = "idle"
        /\ calls + Cardinality(InFlight) < MaxCalls
        /\ UpdReq(q, [IdleReq EXCEPT !.route = "test", !.pc = "h_auth", !.token = tok])
        /\ UNCHANGED <<update_queue, db, calls, sse, inbox>>

\* test_work_order_data = {...}; old_status, new_status, updated_by
t_data(q) ==
    /\ ReqAt(q, "t_data")
    /\ UpdReq(q, [req[q] EXCEPT
          !.work_order_data = [id |-> "test-12345", work_order_number |-> "TEST-001"],
          !.old_status = "1st Side Ready",
          !.new_status = "In Progress",
          !.updated_by = "Test User",
          !.pc = "bsu_build"])
    /\ UNCHANGED <<update_queue, db, calls, sse, inbox>>

test_broadcast(q) == h_auth(q) \/ t_data(q) \/ h_after(q)

(* ---------------------- stream_events.event_generator ----------------- *)
UpdStream(k, r) == sse' = [sse EXCEPT ![k] = r]

StreamAt(k, pc) == sse[k].pc = pc

\* what the generator yields
Event(type, user, call, data) == [type |-> type, user |-> user, call |-> call, data |-> data]

\* the write of a yielded event reaches the client; when the client has
\* gone away the write fails and the generator is closed at its yield
Yield(k, ev, pc) ==
    IF sse[k].open
    THEN UpdStream(k, [sse[k] EXCEPT !.out = Append(@, ev), !.pc = pc, !.update = NoUpdate,
                                     !.received = IF ev.type = "work_order_update"
                                                  THEN @ \cup {ev.call} ELSE @])
    ELSE UpdStream(k, [sse[k] EXCEPT !.update = NoUpdate, !.pc = "closed"])

\* GET /api/events?token=...
StartStream(k) ==
    \E tok \in StreamTokens(k) :
        /\ StreamAt(k, "idle")
        /\ UpdStream(k, [IdleStream EXCEPT !.pc = "se_auth", !.token = tok])
        /\ UNCHANGED <<update_queue, now>>

\* token required; decode_jwt_token; role check
se_auth(k) ==
    /\ StreamAt(k, "se_auth")
    /\ LET me == sse[k]
           payload == decode_jwt_token(me.token)
       IN  IF me.token = "" \/ payload = NoUser
           THEN UpdStream(k, [me EXCEPT !.resp = 401, !.pc = "closed"])
           ELSE IF payload.role \notin StreamRoles
           THEN UpdStream(k, [me EXCEPT !.resp = 403, !.pc = "closed"])
           ELSE UpdStream(k, [me EXCEPT !.resp = 200, !.user = payload, !.open = TRUE,
                                        !.pc = "se_hello"])
    /\ UNCHANGED <<update_queue, now>>

\* faulty variant of se_hello: the acknowledgment does not carry the identity
se_hello_anonymous(k) ==
    /\ StreamAt(k, "se_hello")
    /\ Yield(k, Event("connected", "", 0, NoData), "se_init")
    /\ UNCHANGED <<update_queue, now>>

\* yield {'type': 'connected', ..., 'user': payload.get('username'), ...}
se_hello(k) ==
    /\ StreamAt(k, "se_hello")
    /\ Yield(k, Event("connected", sse[k].user.username, 0, NoData), "se_init")
    /\ UNCHANGED <<update_queue, now>>

\* last_heartbeat = time.time()
se_init(k) ==
    /\ StreamAt(k, "se_init")
    /\ UpdStream(k, [sse[k] EXCEPT !.last_heartbeat = now, !.pc = "se_loop"])
    /\ UNCHANGED <<update_queue, now>>

\* faulty variant of se_loop: pending events go before the heartbeat
se_loop_events_first(k) ==
    /\ StreamAt(k, "se_loop")
    /\ IF now - sse[k].last_heartbeat > HeartbeatInterval /\ update_queue = <<>>
       THEN Yield(k, Event("heartbeat", "", 0, NoData), "se_hb_set")
       ELSE UpdStream(k, [sse[k] EXCEPT !.pc = "se_check"])
    /\ UNCHANGED <<update_queue, now>>

\* while True: if time.time() - last_heartbeat > 30: yield heartbeat
se_loop(k) ==
    /\ StreamAt(k, "se_loop")
    /\ IF now - sse[k].last_heartbeat > HeartbeatInterval
       THEN Yield(k, Event("heartbeat", "", 0, NoData), "se_hb_set")
       ELSE UpdStream(k, [sse[k] EXCEPT !.pc = "se_check"])
    /\ UNCHANGED <<update_queue, now>>

\* last_heartbeat = time.time()
se_hb_set(k) ==
    /\ StreamAt(k, "se_hb_set")
    /\ UpdStream(k, [sse[k] EXCEPT !.last_heartbeat = now, !.pc = "se_check"])
    /\ UNCHANGED <<update_queue, now>>

\* if not update_queue.empty(): ... else: time.sleep(1)
se_check(k) ==
    /\ StreamAt(k, "se_check")
    /\ IF update_queue # <<>>
       THEN UpdStream(k, [sse[k] EXCEPT !.pc = "se_get"])
       ELSE UpdStream(k, [sse[k] EXCEPT !.pc = "se_sleep"])
    /\ UNCHANGED <<update_queue, now>>

\* faulty variant of se_get: the head is read but left in the queue
se_get_peek(k) ==
    /\ StreamAt(k, "se_get")
    /\ update_queue # <<>>
    /\ UpdStream(k, [sse[k] EXCEPT !.update = Head(update_queue), !.pc = "se_yield"])
    /\ UNCHANGED <<update_queue, now>>

\* faulty variant of se_get: the newest event is taken, not the oldest
se_get_newest(k) ==
    /\ StreamAt(k, "se_get")
    /\ update_queue # <<>>
    /\ update_queue' = SubSeq(update_queue, 1, Len(update_queue) - 1)
    /\ UpdStream(k, [sse[k] EXCEPT !.update = update_queue[Len(update_queue)],
                                   !.pc = "se_yield"])
    /\ UNCHANGED now

\* update = update_queue.get(timeout=1)
se_get(k) ==
    /\ StreamAt(k, "se_get")
    /\ update_queue # <<>>
    /\ update_queue' = Tail(update_queue)
    /\ UpdStream(k, [sse[k] EXCEPT !.update = Head(update_queue), !.pc = "se_yield"])
    /\ UNCHANGED now

\* the queue was emptied after empty() was read: get raises Empty after
\* the timeout, the bare except breaks out of the loop
se_get_timeout(k) ==
    /\ StreamAt(k, "se_get")
    /\ update_queue = <<>>
    /\ UpdStream(k, [sse[k] EXCEPT !.pc = "closed"])
    /\ UNCHANGED <<update_queue, now>>

\* yield f"data: {json.dumps(update)}\n\n"
se_yield(k) ==
    /\ StreamAt(k, "se_yield")
    /\ Yield(k, Event(sse[k].update.data.type, "", sse[k].update.call, sse[k].update.data),
             "se_loop")
    /\ UNCHANGED <<update_queue, now>>

\* time.sleep(1)
se_sleep(k) ==
    /\ StreamAt(k, "se_sleep")
    /\ UpdStream(k, [sse[k] EXCEPT !.pc = "se_loop"])
    /\ UNCHANGED <<update_queue, now>>

\* the generator is about to write to the client
AtYield(k) ==
    \/ sse[k].pc \in {"se_hello", "se_yield"}
    \/ sse[k].pc = "se_loop" /\ now - sse[k].last_heartbeat > HeartbeatInterval

\* the client has gone away: the write fails and the generator is closed at
\* its yield; what it was about to send is dropped
ClientDisconnect(k) ==
    /\ Streaming(k)
    /\ AtYield(k)
    /\ UpdStream(k, [sse[k] EXCEPT !.open = FALSE, !.update = NoUpdate, !.pc = "closed"])
    /\ UNCHANGED <<update_queue, now>>

\* the client closes its connection while the generator is somewhere in its
\* loop: the server does not notice before it writes to the client again
ClientGoesAway(k) ==
    /\ Streaming(k)
    /\ UpdStream(k, [sse[k] EXCEPT !.open = FALSE])
    /\ UNCHANGED <<update_queue, now>>

\* the response is over: the slot is free
StreamReturn(k) ==
    /\ StreamAt(k, "closed")
    /\ UpdStream(k, IdleStream)
    /\ UNCHANGED <<update_queue, now>>

event_generator(k) ==
    \/ se_hello(k) \/ se_init(k) \/ se_loop(k) \/ se_hb_set(k) \/ se_check(k)
    \/ se_get(k) \/ se_get_timeout(k) \/ se_yield(k) \/ se_sleep(k)

stream_events(k) == se_auth(k) \/ event_generator(k)

\* the amounts by which the clock is seen to advance
TimeSteps == {30, 31}

TimePasses ==
    \E d \in TimeSteps :
        /\ now + d <= MaxTime
        /\ now' = now + d
        /\ UNCHANGED <<update_queue, sse>>

(* --------------------------- specifications --------------------------- *)
\* the state after the module is loaded; the packets of the connections in
\* S are recorded
InitObserving(S) ==
    /\ room_users = EmptyDict
    /\ user_sessions = EmptyDict
    /\ sio_rooms = {}
    /\ attached = [s \in Sids |-> "new"]
    /\ task = [t \in Tasks |-> IdleTask]
    /\ cleaned = {}
    /\ update_queue = <<>>
    /\ db = [w \in WorkOrders |-> "Ready"]
    /\ req = [q \in Requests |-> IdleReq]
    /\ calls = 0
    /\ sse = [k \in Clients |-> IdleStream]
    /\ now = 0
    /\ inbox = [s \in S |-> <<>>]

Init == InitObserving({})


Step(t) ==
    \/ handle_connect(t)
    \/ handle_join_room(t)
    \/ handle_leave_room(t)
    \/ remove_user_from_room(t)
    \/ cleanup_user_session(t)
    \/ Return(t)

\* an event of a connection in S is dispatched to slot t
Start(t, S, pre) ==
    \/ StartConnect(t, S, pre)
    \/ StartDisconnect(t, S, pre)
    \/ StartJoinRoom(t, S, pre)
    \/ StartLeaveRoom(t, S, pre)

\* handlers run one at a time, each to completion, in slot 1
Next ==
    /\ \/ Start(1, Sids, Snapshot) \/ Step(1)
       \/ StartGetRoomUsers(1, Sids, Snapshot) \/ handle_get_room_users(1)
       \/ StartTimelineInteraction(1, Sids, Snapshot) \/ handle_timeline_interaction(1)
    /\ UNCHANGED <<notifyvars, ssevars>>

Spec == Init /\ [][Next]_vars

\* the racing connections whose handshake has been accepted
Established == {s \in RaceSids : attached[s] = "open"}

\* the steps of concurrently dispatched handlers interleave: while slot 1
\* handles the events of a connection, the transport signals its disconnect
NextConc ==
    /\ \/ Start(1, RaceSids, NoSnapshot)
       \/ StartDisconnect(2, Established, NoSnapshot)
       \/ \E t \in Tasks : Step(t) \/ au_mksess(t)
    /\ UNCHANGED <<notifyvars, ssevars>>

SpecConc == Init /\ [][NextConc]_vars

\* the status endpoints and the broadcast they trigger
NextNotify ==
    /\ \E q \in Requests :
          \/ StartStatusUpdate(q)
          \/ mobile_update_work_order_status(q)
          \/ broadcast_status_update(q)
          \/ ReqReturn(q)
    /\ UNCHANGED <<pushvars, now>>

SpecNotify == Init /\ [][NextNotify]_vars

\* the event stream, with /api/test/broadcast as the publisher
NextSSE ==
    /\ \/ \E k \in Clients : StartStream(k) \/ stream_events(k)
                             \/ ClientDisconnect(k) \/ StreamReturn(k)
       \/ TimePasses
    /\ UNCHANGED <<pushvars, db, req, calls, inbox>>

NextPublish ==
    /\ \E q \in {1} : StartTestBroadcast(q) \/ test_broadcast(q)
                      \/ broadcast_status_update(q) \/ ReqReturn(q)
    /\ UNCHANGED <<pushvars, now>>

SpecSSE == Init /\ [][NextSSE \/ NextPublish]_vars

\* admission on both transports: the Socket.IO handshake of every sid and
\* one /api/events client, while /api/test/broadcast publishes.  The clock
\* stands still, so no heartbeat falls due, and the single client is never
\* raced for an event.
NextAdmitPush ==
    /\ StartConnect(1, Sids, Snapshot) \/ handle_connect(1) \/ Return(1)
    /\ UNCHANGED <<notifyvars, ssevars>>

NextAdmitPull ==
    /\ \E k \in {1} :
          \/ StartStream(k) \/ se_auth(k) \/ se_hello(k) \/ se_init(k) \/ se_loop(k)
          \/ se_check(k) \/ se_get(k) \/ se_yield(k) \/ se_sleep(k)
          \/ ClientDisconnect(k) \/ StreamReturn(k)
    /\ UNCHANGED <<pushvars, db, req, calls, inbox>>

SpecAdmit == Init /\ [][NextAdmitPush \/ NextAdmitPull \/ NextPublish]_vars

\* the connections whose handshake was accepted and that have not gone away
Attached == {s \in Sids : attached[s] = "open"}

\* rooms and broadcasts together: the transport hands over the events of
\* attached connections one at a time while /api/test/broadcast publishes
NextRooms ==
    /\ \/ StartConnect(1, Sids, NoSnapshot)
       \/ StartDisconnect(1, Attached, NoSnapshot)
       \/ StartJoinRoom(1, Attached, NoSnapshot)
       \/ StartLeaveRoom(1, Attached, NoSnapshot)
       \/ Step(1)
    /\ UNCHANGED <<notifyvars, ssevars>>

SpecRooms == Init /\ [][NextRooms \/ NextPublish]_vars

\* the serial handlers, where the connect event may also arrive for a
\* connection that is already registered
NextReconnect ==
    /\ \/ Start(1, Sids, Snapshot)
       \/ StartReconnect(1, Sids, Snapshot)
       \/ Step(1)
    /\ UNCHANGED <<notifyvars, ssevars>>

SpecReconnect == Init /\ [][NextReconnect]_vars

\* the rooms of one connection and the broadcasts of one producer, with the
\* packets the connection is sent on record
InitOrder == InitObserving(RaceSids)

NextOrder ==
    /\ \/ Start(1, RaceSids, NoSnapshot)
       \/ Step(1)
    /\ UNCHANGED <<notifyvars, ssevars>>

SpecOrder == InitOrder /\ [][NextOrder \/ NextPublish]_vars

\* the shared queue: one /api/events client takes the events that the
\* request threads of /api/test/broadcast publish at the same time; the
\* clock stands still, so no heartbeat falls due, and the single client is
\* never raced for an event
NextProduce ==
    /\ \E q \in Requests : StartTestBroadcast(q) \/ test_broadcast(q)
                           \/ broadcast_status_update(q) \/ ReqReturn(q)
    /\ UNCHANGED <<pushvars, now>>

SpecQueue == Init /\ [][NextAdmitPull \/ NextProduce]_vars

\* the heartbeat: one /api/events client while /api/test/broadcast
\* publishes and the clock advances.  The generator is a thread of its own
\* whose waits are bounded (sleep(1), get(timeout=1)), so it keeps taking
\* steps for as long as the stream is open.
GeneratorStep(k) ==
    /\ \/ se_hello(k) \/ se_init(k) \/ se_loop(k) \/ se_hb_set(k) \/ se_check(k)
       \/ se_get(k) \/ se_yield(k) \/ se_sleep(k)
    /\ UNCHANGED <<pushvars, db, req, calls, inbox>>

NextBeat ==
    \/ GeneratorStep(1)
    \/ /\ \/ StartStream(1) \/ se_auth(1) \/ ClientDisconnect(1) \/ StreamReturn(1)
          \/ TimePasses
       /\ UNCHANGED <<pushvars, db, req, calls, inbox>>

SpecBeat == Init /\ [][NextBeat \/ NextPublish]_vars /\ WF_vars(GeneratorStep(1))

\* a client that leaves at any moment: one /api/events client, which may
\* close its connection at any point of the loop, while /api/test/broadcast
\* publishes
NextGone ==
    \/ NextAdmitPull
    \/ /\ ClientGoesAway(1)
       /\ UNCHANGED <<pushvars, db, req, calls, inbox>>

SpecGone == Init /\ [][NextGone \/ NextPublish]_vars

(* ============================== claims ================================ *)
\* sid c is a key of the member map d[R]
InRoom(d, c, R) == R \in DOMAIN d /\ c \in DOMAIN d[R]

\* the session registry us lists room R for sid c
Listed(us, c, R) == c \in DOMAIN us /\ R \in us[c].rooms

\* both registries agree about sid c
Agree(c) ==
    \A R \in RoomInputs : InRoom(room_users, c, R) <=> Listed(user_sessions, c, R)

\* no handler is between two of its steps
Quiescent == \A t \in Tasks : task[t].pc \in {"idle", "done"}

\* the handler in slot t has ended, and it was kind
Ended(t, kind) == task[t].pc = "done" /\ task[t].kind = kind

\* the messages of event ev the handler in slot t emitted for room R
Emitted(t, ev, R) ==
    {i \in DOMAIN task[t].out : task[t].out[i].event = ev /\ task[t].out[i].room = R}

\* C1: after any sequence of completed connect, join_room, leave_room and
\* disconnect handlers, for every room R and sid c: c is a key of
\* room_users[R] iff c is in user_sessions and R is in its 'rooms'.
C1_RegistriesAgree == Quiescent => \A c \in Sids : Agree(c)

\* a leave_room has just removed a member while another sid is still a member
C1_Witness ==
    /\ Ended(1, "leave_room")
    /\ task[1].ret # NoUser
    /\ \E c \in Sids \ {task[1].sid} : \E R \in ValidRooms : InRoom(room_users, c, R)
    /\ \E R \in ValidRooms : InRoom(room_users, task[1].sid, R)

\* C2: when a join_room handler and the disconnect cleanup of the same sid
\* have run concurrently (one started while the other was running) and both
\* have ended without an exception, no room_users[R] holds the sid and the
\* registries agree about it.
C2_NoOrphanAfterRace ==
    ( /\ Ended(1, "join_room") /\ Ended(2, "disconnect")
      /\ task[1].sid = task[2].sid
      /\ ("disconnect" \in task[1].with \/ "join_room" \in task[2].with)
      /\ task[1].err = "none" /\ task[2].err = "none" )
    => /\ \A R \in RoomInputs : ~InRoom(room_users, task[1].sid, R)
       /\ Agree(task[1].sid)

\* the rooms whose member map held sid c when the handler in slot t started
RoomsBefore(t, c) == {R \in RoomInputs : InRoom(task[t].pre.ru, c, R)}

\* C8: after a disconnect cleanup of c that ended normally, where c was a
\* member of the rooms S, no member map holds c, user_sessions does not hold
\* c, and exactly one user_left_room was emitted for each room of S and none
\* for any other room.
C8_CleanupPostcondition ==
    (Ended(1, "disconnect") /\ task[1].err = "none") =>
        LET c == task[1].sid
            S == RoomsBefore(1, c)
        IN  /\ \A R \in RoomInputs : ~InRoom(room_users, c, R)
            /\ c \notin DOMAIN user_sessions
            /\ \A R \in RoomInputs :
                   Cardinality(Emitted(1, "user_left_room", R)) = IF R \in S THEN 1 ELSE 0

\* a cleanup ended normally for a sid that was in both rooms
C8_Witness ==
    /\ Ended(1, "disconnect") /\ task[1].err = "none"
    /\ RoomsBefore(1, task[1].sid) = ValidRooms

\* C9: a disconnect for a sid that user_sessions does not hold (cleaned up
\* before, or never registered) changes neither room_users nor
\* user_sessions, emits nothing and raises nothing.
C9_CleanupIdempotent ==
    (Ended(1, "disconnect") /\ task[1].sid \notin DOMAIN task[1].pre.us) =>
        /\ room_users = task[1].pre.ru
        /\ user_sessions = task[1].pre.us
        /\ task[1].out = <<>>
        /\ task[1].err = "none"

\* a second disconnect has ended for a sid whose cleanup had run before,
\* while another connection is still a member of a room
C9_Witness ==
    /\ Ended(1, "disconnect")
    /\ task[1].sid \notin DOMAIN task[1].pre.us
    /\ task[1].sid \in cleaned
    /\ \E c \in Sids : \E R \in ValidRooms : InRoom(room_users, c, R)

\* a leave_room of a legal room has ended for a registered sid that was not
\* a member of it
LeftAsNonMember ==
    /\ Ended(1, "leave_room")
    /\ task[1].room \in ValidRooms
    /\ ~InRoom(task[1].pre.ru, task[1].sid, task[1].room)

RegistriesUntouched(t) ==
    /\ room_users = task[t].pre.ru
    /\ user_sessions = task[t].pre.us
    /\ sio_rooms = task[t].pre.sio

BroadcastOver(q) == req[q].call > 0 /\ req[q].pc \in {"h_after", "h_dberror", "done"}

\* the subject and the status change a payload carries
Subject(d) == <<d.work_order, d.status_change.old_status, d.status_change.new_status>>

\* the positions of update_queue holding the event of call c
Queued(c) == {i \in DOMAIN update_queue : update_queue[i].call = c}

\* the deliveries request q's call made through 'via' to 'room'
Deliveries(q, via, room) ==
    {i \in DOMAIN req[q].out : req[q].out[i].via = via /\ req[q].out[i].room = room}

\* C3: every stream client eventually receives every event published while
\* it was connected.  An event owed to a client that is still streaming and
\* has not received it must still be obtainable: in update_queue or in the
\* client's hands.  Once that fails the client can never receive the event.
C3_EveryClientReceivesEveryEvent ==
    \A k \in Clients :
        Connected(k) =>
            \A c \in sse[k].owed \ sse[k].received :
                Queued(c) # {} \/ sse[k].update.call = c

\* C4: within one call of broadcast_status_update the payload put on
\* update_queue and the payloads emitted to 'timeline' and 'floor_display'
\* carry the same work order, old_status and new_status, namely those the
\* caller passed in.
C4_PayloadParity ==
    \A q \in Requests :
        req[q].call > 0 =>
            /\ \A i \in DOMAIN req[q].out :
                  Subject(req[q].out[i].data) =
                      << [id |-> req[q].work_order_data.id,
                          work_order_number |-> req[q].work_order_data.work_order_number,
                          status |-> req[q].new_status],
                         req[q].old_status, req[q].new_status >>
            /\ \A i \in Queued(req[q].call), j \in DOMAIN req[q].out :
                  Subject(update_queue[i].data) = Subject(req[q].out[j].data)

\* a call has delivered on all three paths while its event is still queued
C4_Witness ==
    \E q \in Requests :
        /\ BroadcastOver(q)
        /\ Len(req[q].out) = 3
        /\ Queued(req[q].call) # {}
        /\ req[q].old_status # req[q].new_status

\* C5: a call of broadcast_status_update in which no delivery step fails
\* appends exactly one event to update_queue and emits exactly once to
\* 'timeline', exactly once to 'floor_display', and to no other room.
C5_OneOfEach ==
    \A q \in Requests :
        BroadcastOver(q) /\ req[q].failed = {} =>
            /\ Cardinality(Queued(req[q].call)) = 1
            /\ Cardinality(Deliveries(q, "update_queue", "")) = 1
            /\ Cardinality(Deliveries(q, "socketio", "timeline")) = 1
            /\ Cardinality(Deliveries(q, "socketio", "floor_display")) = 1
            /\ Len(req[q].out) = 3

\* two calls have completed without a failure
C5_Witness ==
    \E q \in Requests :
        /\ BroadcastOver(q) /\ req[q].failed = {} /\ req[q].call = 2
        /\ Len(update_queue) = 2

\* C6: delivery to the transports is independent: whichever delivery step
\* raises, the queue publish and the broadcast to each room are all attempted.
C6_IndependentDelivery ==
    \A q \in Requests :
        BroadcastOver(q) => req[q].tried = {"update_queue", "timeline", "floor_display"}

\* C7: broadcast_status_update never propagates an error: the handler that
\* called it after its commit returns 200 and never rolls back.
C7_BroadcastNeverRaises ==
    \A q \in Requests :
        BroadcastOver(q) /\ req[q].route # "test" =>
            /\ req[q].pc # "h_dberror"
            /\ req[q].tx = "committed"
            /\ req[q].pc = "h_after" => ~req[q].exc
            /\ req[q].pc = "done" => req[q].resp = 200

\* a handler has returned after a delivery step of its broadcast failed
C7_Witness ==
    \E q \in Requests :
        /\ req[q].pc = "done" /\ req[q].call > 0
        /\ req[q].failed # {}
        /\ req[q].resp = 200 /\ db[req[q].wo] = req[q].new_status

(* --------------------------- rooms and admission ----------------------- *)
\* a handler of one of kinds has ended in slot t
EndedAny(t, kinds) == task[t].pc = "done" /\ task[t].kind \in kinds

\* C11: a join_room, leave_room or get_room_users request naming a room
\* outside the enumeration is answered with one 'error' event naming that
\* room, raises nothing, leaves room_users, user_sessions and the transport
\* rooms as they were, and leaves the connection's attachment as it was.
C11_InvalidRoomRejected ==
    (EndedAny(1, {"join_room", "leave_room", "get_room_users"})
        /\ task[1].room \notin ValidRooms) =>
        /\ task[1].out = <<Reply(1, "error", "Invalid room", task[1].room, -1)>>
        /\ task[1].err = "none"
        /\ RegistriesUntouched(1)
        /\ attached = task[1].pre.att

\* a registered member of a room has asked to join a room outside the enumeration
C11_Witness ==
    /\ Ended(1, "join_room")
    /\ task[1].room \notin ValidRooms
    /\ attached[task[1].sid] = "open"
    /\ \E R \in ValidRooms : InRoom(room_users, task[1].sid, R)

\* C12: a join_room of an attached connection for a room it is already a
\* member of leaves the room's member map, the connection's room set and the
\* transport rooms as the first join left them, and reports the member count
\* there was.
C12_RejoinIdempotent ==
    (Ended(1, "join_room") /\ task[1].room \in ValidRooms
        /\ task[1].pre.att[task[1].sid] = "open"
        /\ InRoom(task[1].pre.ru, task[1].sid, task[1].room)) =>
        /\ task[1].err = "none"
        /\ RegistriesUntouched(1)
        /\ task[1].count = Cardinality(DOMAIN task[1].pre.ru[task[1].room])
        /\ \E i \in DOMAIN task[1].out :
              task[1].out[i] = Reply(1, "room_joined", "Joined room", task[1].room,
                                     Cardinality(DOMAIN task[1].pre.ru[task[1].room]))

\* a member of both rooms has joined again a room that has two members
C12_Witness ==
    /\ Ended(1, "join_room")
    /\ task[1].pre.att[task[1].sid] = "open"
    /\ RoomsBefore(1, task[1].sid) = ValidRooms
    /\ task[1].count = 2

\* credentials that identify nobody: none, a malformed one, an expired one
BadTokens == {"", "malformed", "expired"}

\* a step leaves both registries, the transport rooms and update_queue alone
NoStateCreated == UNCHANGED <<room_users, user_sessions, sio_rooms, update_queue>>

\* C13: a connection attempt with a missing, malformed or expired token is
\* rejected on both transports and creates no state.  The step of
\* handle_connect that handles it emits one 'error', returns False and
\* changes no registry and not update_queue; the transport then refuses the
\* connection.  The step of stream_events that handles it answers 401, starts
\* no event stream and changes nothing either.
C13_BadTokenRejected ==
    [][ /\ (At(1, "co") /\ task[1].token \in BadTokens /\ task'[1] # task[1]) =>
              /\ task'[1].pc = "done" /\ task'[1].rv = "False"
              /\ Len(task'[1].out) = 1 /\ task'[1].out[1].event = "error"
              /\ task'[1].out[1].to = {task[1].sid}
              /\ NoStateCreated
        /\ (Ended(1, "connect") /\ task[1].token \in BadTokens /\ task'[1] # task[1]) =>
              /\ attached'[task[1].sid] = "rejected"
              /\ NoStateCreated
        /\ \A k \in Clients :
              (StreamAt(k, "se_auth") /\ sse[k].token \in BadTokens /\ sse'[k] # sse[k]) =>
                  /\ sse'[k].pc = "closed" /\ sse'[k].resp = 401
                  /\ ~sse'[k].open /\ sse'[k].out = <<>>
                  /\ NoStateCreated
      ]_vars

\* both transports have turned an attempt down while an event was queued
C13_Witness ==
    /\ \E s \in Sids : attached[s] = "rejected"
    /\ \E k \in Clients : StreamAt(k, "closed") /\ sse[k].resp = 401
    /\ update_queue # <<>>

\* C14: every connection admitted by either transport holds a token whose
\* role is one of admin, scheduler, supervisor, floor_view.
C14_OnlyAuthorizedRolesAdmitted ==
    /\ \A s \in DOMAIN user_sessions : user_sessions[s].user_info.role \in StreamRoles
    /\ \A k \in Clients : Streaming(k) => sse[k].user.role \in StreamRoles

(* ------------------------- who a broadcast reaches --------------------- *)
\* where broadcast_status_update is when it is about to emit to room R
EmitPc(R) == IF R = "timeline" THEN "bsu_emit_timeline" ELSE "bsu_emit_floor_display"

\* this step is request q's socketio.emit to room R going through
EmitsTo(q, R) ==
    /\ ReqAt(q, EmitPc(R))
    /\ Len(req'[q].out) = Len(req[q].out) + 1

\* the connections the emit of this step is handed to
Recipients(q) == req'[q].out[Len(req'[q].out)].to

\* no handler of connection c is between its first step and its return
Settled(c) == \A t \in Tasks : task[t].kind = "idle" \/ task[t].sid # c

\* C15: a connection that is attached and is in room_users[R] at the instant
\* broadcast_status_update emits to R is among the recipients of that emit,
\* and what it is handed is the work_order_update of that call.
C15_MembersReceive ==
    [][ \A q \in Requests, R \in ValidRooms :
          EmitsTo(q, R) =>
              /\ \A c \in Attached : InRoom(room_users, c, R) => c \in Recipients(q)
              /\ req'[q].out[Len(req'[q].out)].data = req[q].update_data
              /\ req[q].update_data.type = "work_order_update"
      ]_vars

\* a call has emitted to 'timeline' while both connections were members
C15_Witness ==
    \E q \in Requests : \E i \in DOMAIN req[q].out :
        /\ req[q].out[i].room = "timeline"
        /\ req[q].out[i].to = Sids
        /\ \A c \in Sids : InRoom(room_users, c, "timeline")

\* C16: an emit to R goes to the membership of that moment.  Of the
\* connections with no request in progress, those that never joined R, whose
\* leave_room(R) has returned or whose disconnect has returned are not among
\* the recipients, and those whose join_room(R) has returned are: the
\* recipients are exactly the attached connections in room_users[R].
C16_MembershipOfTheMoment ==
    [][ \A q \in Requests, R \in ValidRooms :
          EmitsTo(q, R) =>
              \A c \in Sids :
                  Settled(c) =>
                      (c \in Recipients(q) <=> (c \in Attached /\ InRoom(room_users, c, R)))
      ]_vars

\* the two emits of one call went to different memberships: a connection
\* joined or left between them
C16_Witness ==
    \E q \in Requests : \E i, j \in DOMAIN req[q].out :
        /\ req[q].out[i].room = "timeline" /\ req[q].out[i].to = {}
        /\ req[q].out[j].room = "floor_display" /\ req[q].out[j].to # {}
        /\ \E c \in Sids : attached[c] = "closed"

(* --------------------------- departure notices ------------------------- *)
\* the attached connections other than c that room_users[R] held when the
\* handler in slot t started
RemainingMembers(t, c, R) ==
    {d \in Sids \ {c} : InRoom(task[t].pre.ru, d, R) /\ task[t].pre.att[d] = "open"}

\* every member remaining in R was handed a user_left_room for R that the
\* handler in slot t emitted
Notified(t, c, R) ==
    \A d \in RemainingMembers(t, c, R) :
        \E i \in Emitted(t, "user_left_room", R) : d \in task[t].out[i].to

\* C17: when the disconnect handler of a connection that never called
\* leave_room has ended, every room R it was in has had its user_left_room
\* delivered to the members remaining in R, unless the emit for R itself is
\* the one that failed.
C17_DepartureNotified ==
    Ended(1, "disconnect") =>
        \A R \in RoomsBefore(1, task[1].sid) :
            \/ Notified(1, task[1].sid, R)
            \/ task[1].err = "EmitError" /\ task[1].room = R

(* ------------------------------ the event stream ----------------------- *)
\* C18: on an event stream the first event delivered is 'connected' and
\* carries the username of the token's payload; no later event is
\* 'connected', so every heartbeat and work_order_update comes after it.
C18_ConnectedFirstAndOnce ==
    \A k \in Clients :
        sse[k].out # <<>> =>
            /\ sse[k].out[1].type = "connected"
            /\ sse[k].out[1].user = decode_jwt_token(sse[k].token).username
            /\ sse[k].out[1].user # ""
            /\ \A i \in DOMAIN sse[k].out : i > 1 =>
                   sse[k].out[i].type \in {"heartbeat", "work_order_update"}

\* both streams have delivered a heartbeat and an update after their greeting
C18_Witness ==
    \A k \in Clients :
        /\ Len(sse[k].out) >= 3
        /\ \E i, j \in DOMAIN sse[k].out :
              sse[k].out[i].type = "heartbeat" /\ sse[k].out[j].type = "work_order_update"

(* ------------------------- after the cleanup has run ------------------- *)
\* C19: once cleanup_user_session has deleted the session of a connection
\* id, that id is in user_sessions no more and in no room_users[R], whatever
\* requests carrying the id run later or at the same time.
C19_NoReturnAfterCleanup ==
    \A c \in cleaned :
        /\ c \notin DOMAIN user_sessions
        /\ \A R \in RoomInputs : ~InRoom(room_users, c, R)

\* C20: when handle_disconnect for c has ended, normally or by an error
\* raised from socketio.emit, c is in user_sessions no more and in no
\* room_users[R].
C20_CleanupSurvivesEmitFailure ==
    (Ended(1, "disconnect") /\ task[1].err \in {"none", "EmitError"}) =>
        /\ task[1].sid \notin DOMAIN user_sessions
        /\ \A R \in RoomInputs : ~InRoom(room_users, task[1].sid, R)

\* C21: a connect for a sid that user_sessions already holds fails (the
\* handler returns False) and leaves the session record of the sid, its set
\* of joined rooms included, as it was.
C21_DuplicateConnectFails ==
    (Ended(1, "connect") /\ task[1].sid \in DOMAIN task[1].pre.us) =>
        /\ task[1].rv = "False"
        /\ task[1].sid \in DOMAIN user_sessions
        /\ user_sessions[task[1].sid] = task[1].pre.us[task[1].sid]

\* C22: a join_room from a sid that user_sessions does not hold raises
\* nothing, is answered with exactly one 'error' event sent to the requester
\* alone and changes neither room_users, user_sessions nor the transport
\* rooms; a leave_room from such a sid changes none of them either.
C22_UnregisteredRejected ==
    /\ (Ended(1, "join_room") /\ task[1].sid \notin DOMAIN task[1].pre.us) =>
           /\ task[1].err = "none"
           /\ Len(task[1].out) = 1
           /\ task[1].out[1].event = "error"
           /\ task[1].out[1].to = {task[1].sid}
           /\ RegistriesUntouched(1)
    /\ (Ended(1, "leave_room") /\ task[1].sid \notin DOMAIN task[1].pre.us) =>
           RegistriesUntouched(1)

\* a join_room of a legal room has ended for a sid whose session had been
\* cleaned up, while another connection is a member of that room
C22_Witness ==
    /\ Ended(1, "join_room")
    /\ task[1].room \in ValidRooms
    /\ task[1].sid \notin DOMAIN task[1].pre.us
    /\ task[1].sid \in cleaned
    /\ \E c \in Sids : InRoom(room_users, c, task[1].room)

\* C23: the work_order_update packets a connection is sent for one room
\* arrive in the order of the broadcast_status_update calls that emitted
\* them: of two packets for the same room in its receive order, the earlier
\* one is from the earlier call.
C23_RoomOrderKept ==
    \A s \in DOMAIN inbox : \A i, j \in DOMAIN inbox[s] :
        (i < j /\ inbox[s][i].room = inbox[s][j].room) =>
            inbox[s][i].call < inbox[s][j].call

\* a connection that stayed in 'timeline' has been sent the packets of two
\* successive calls for that room
C23_Witness ==
    \E s \in DOMAIN inbox : \E i, j \in DOMAIN inbox[s] :
        /\ i < j
        /\ inbox[s][i].room = "timeline" /\ inbox[s][j].room = "timeline"
        /\ <<"timeline", s>> \in sio_rooms

\* the events of type work_order_update that client k was sent, in order
Delivered(k) == SelectSeq(sse[k].out, LAMBDA e : e.type = "work_order_update")

\* C24: update_queue is first in, first out, also with publishers running at
\* the same time: every step that changes it either appends exactly the one
\* event of the publisher at its put and keeps what was queued, or removes
\* the head and hands it to the one client that took it; and a client sends
\* the events it took in the order it took them, each right after the take.
C24_QueueIsFifo ==
    [][ /\ update_queue' # update_queue =>
             \/ \E q \in Requests :
                    /\ req[q].pc = "bsu_put"
                    /\ req'[q].pc = "bsu_emit_timeline"
                    /\ update_queue' = Append(update_queue,
                                              [call |-> req[q].call,
                                               data |-> req[q].update_data])
             \/ \E k \in Clients :
                    /\ update_queue # <<>>
                    /\ update_queue' = Tail(update_queue)
                    /\ sse[k].update = NoUpdate
                    /\ sse'[k].update = Head(update_queue)
                    /\ \A j \in Clients \ {k} : sse'[j] = sse[j]
        /\ \A k \in Clients :
             /\ sse[k].update # NoUpdate => sse[k].pc = "se_yield"
             /\ Len(Delivered(k)') > Len(Delivered(k)) =>
                    /\ sse[k].update # NoUpdate
                    /\ Delivered(k)' = Append(Delivered(k),
                                              Event("work_order_update", "",
                                                    sse[k].update.call, sse[k].update.data))
                    /\ sse'[k].update = NoUpdate
      ]_vars

\* a client has been sent the events of two calls whose publishers are both
\* still in their request, the later call's event first
C24_Witness ==
    \E k \in Clients :
        /\ Len(Delivered(k)) = 2
        /\ Delivered(k)[1].call > Delivered(k)[2].call
        /\ \A q \in Requests : req[q].call > 0

\* the loop of client k is running and more than 30 time units have passed
\* since its last_heartbeat
Due(k) ==
    /\ Streaming(k)
    /\ sse[k].pc \in {"se_loop", "se_check", "se_get", "se_yield", "se_sleep"}
    /\ now - sse[k].last_heartbeat > HeartbeatInterval

\* C25: whenever the loop of an open stream comes to its heartbeat test more
\* than 30 time units after the last heartbeat, the next thing the client is
\* sent is a heartbeat, whether or not events are queued; and once 30 time
\* units have passed, the heartbeat follows (or the stream has ended) after
\* at most the one event the loop was busy with.
C25_HeartbeatKeepsComing ==
    /\ [][ \A k \in Clients :
             ( /\ Due(k) /\ sse[k].pc = "se_loop"
               /\ sse'[k].pc # sse[k].pc /\ sse'[k].open )
             => /\ sse'[k].out = Append(sse[k].out, Event("heartbeat", "", 0, NoData))
                /\ sse'[k].pc = "se_hb_set" ]_vars
    /\ \A k \in {1} : Due(k) ~> (sse[k].pc = "se_hb_set" \/ ~Streaming(k))

\* a heartbeat has just been sent on a stream that delivered an event
\* before it, while the next event is waiting in the queue
C25_Witness ==
    /\ sse[1].pc = "se_hb_set"
    /\ sse[1].received # {}
    /\ update_queue # <<>>

\* the client of stream k has closed its connection and the loop still runs
Gone(k) == ~sse[k].open /\ sse[k].pc \in GeneratorPcs

\* C26: from the moment its client has disconnected, the loop of a stream
\* takes no event from update_queue any more.
C26_NoTakeAfterDisconnect ==
    [][ \A k \in Clients :
          Gone(k) => (sse'[k].update = sse[k].update \/ sse'[k].update = NoUpdate) ]_vars

\* C27: every step of a timeline_interaction or get_room_users handler
\* leaves update_queue, room_users and user_sessions as they are; a
\* timeline_interaction of one of the two known types from a registered sid
\* ends with one message to the other connections of room 'timeline', and
\* one from a sid without a session ends with one 'error' reply to the
\* requester alone.
C27_EphemeralBypass ==
    /\ [][ task[1].kind \in {"timeline_interaction", "get_room_users"} =>
             /\ update_queue' = update_queue
             /\ room_users' = room_users
             /\ user_sessions' = user_sessions ]_vars
    /\ [](Ended(1, "timeline_interaction") =>
             IF task[1].sid \notin DOMAIN task[1].pre.us
             THEN task[1].out = <<Reply(1, "error", "User session not found", "", -1)>>
             ELSE /\ task[1].err = "none"
                  /\ \A i \in DOMAIN task[1].out :
                         /\ task[1].out[i].room = "timeline"
                         /\ task[1].out[i].to = Members("timeline") \ {task[1].sid}
                  /\ Len(task[1].out) =
                         IF task[1].type \in {"work_order_select", "status_change_start"}
                         THEN 1 ELSE 0)

\* a registered connection has announced a work order selection to another
\* connection that is in room 'timeline'
C27_Witness ==
    /\ Ended(1, "timeline_interaction")
    /\ task[1].type = "work_order_select"
    /\ Len(task[1].out) = 1
    /\ task[1].out[1].to # {}

\* request q has entered broadcast_status_update
Invoked(q) == req[q].call > 0 \/ req[q].tried # {} \/ req[q].out # <<>>

C29_EndsOnlyOnDisconnect ==
    \A k \in Clients :
        (sse[k].pc = "closed" /\ sse[k].resp = 200) => ~sse[k].open

\* the calls whose event client k has removed from update_queue: those it
\* has sent on and the one it holds between its get and its yield
Taken(k) ==
    sse[k].received \cup
        (IF sse[k].update = NoUpdate THEN {} ELSE {sse[k].update.call})

\* C30: no event is in update_queue twice, none is both in the queue and
\* with a client, none is with two clients, and no client is sent an event
\* twice; and an event leaves the queue only as its head, in a step that
\* hands it to exactly one client.
C30_NeitherDroppedNorDuplicated ==
    /\ [](/\ \A i, j \in DOMAIN update_queue :
                 i # j => update_queue[i].call # update_queue[j].call
          /\ \A k \in Clients :
                 /\ \A i \in DOMAIN update_queue : update_queue[i].call \notin Taken(k)
                 /\ \A j \in Clients \ {k} : Taken(k) \cap Taken(j) = {}
                 /\ Len(Delivered(k)) = Cardinality(sse[k].received))
    /\ [][ \A i \in DOMAIN update_queue :
             \/ \E j \in DOMAIN update_queue' : update_queue'[j] = update_queue[i]
             \/ /\ i = 1
                /\ Cardinality({k \in Clients : /\ sse[k].update = NoUpdate
                                                /\ sse'[k].update = update_queue[i]}) = 1
                /\ Cardinality({k \in Clients : sse'[k].update # sse[k].update}) = 1 ]_vars

\* two clients are connected and each has been sent one event, not the same
C30_Witness ==
    /\ Connected(1) /\ Connected(2)
    /\ sse[1].received # {} /\ sse[2].received # {}
    /\ sse[1].received # sse[2].received

====
